---- MODULE Spec2Model ----
(***************************************************************************)
(* Temperature monitor of src/adv_temp_monitor.py: the per-device fetch    *)
(* with bounded retries, the concurrent poll cycle, the hysteresis         *)
(* counters, the power-off guard with its cooldown and the main loop.      *)
(*                                                                         *)
(* Time is counted in whole minutes on one clock that never goes back; it  *)
(* stands for both datetime.now() and time.monotonic().  A float is the    *)
(* pair [m, e] meaning m / 10^e, kept without trailing fraction zeros.     *)
(***************************************************************************)
EXTENDS Integers, Sequences, FiniteSets, TLC

\* ---------------------------------------------------------------- bounds
MaxCycles == 3
MaxLogCycles == 2
MaxStopCycles == 2
MaxConnects == 3
MaxPasses == 2

\* --------------------------------------------------- configuration values
Devices == {"txpaa1", "txpaa2"}
max_temp == [m |-> 180, e |-> 0]
retry_count == 3
Cooldown == 5
HysteresisThresholds == {1, 2}
CheckIntervals == {3}
\* minutes a poll of all devices and a run of the power-off command (cut
\* off after 30 s) can take on the clock
PollTimes == {0, 1}
CommandTimes == {0, 1}

\* ------------------------------------------------------- optional values
None == <<>>
Some(x) == <<x>>

\* ------------------------------------------------------ response parsing
Digits == {"0", "1", "2", "3", "4", "5", "6", "7", "8", "9"}

DigitVal(c) ==
  CASE c = "0" -> 0 [] c = "1" -> 1 [] c = "2" -> 2 [] c = "3" -> 3
    [] c = "4" -> 4 [] c = "5" -> 5 [] c = "6" -> 6 [] c = "7" -> 7
    [] c = "8" -> 8 [] c = "9" -> 9

IsDigitAt(text, i) == i >= 1 /\ i <= Len(text) /\ text[i] \in Digits

\* number of consecutive digits of text from position i on, at most cap
RECURSIVE DigitRun(_, _, _)
DigitRun(text, i, cap) ==
  IF cap = 0 \/ ~IsDigitAt(text, i) THEN 0
  ELSE 1 + DigitRun(text, i + 1, cap - 1)

\* the decimal value of the n digits of text from position i on, after acc
RECURSIVE DigitsValue(_, _, _, _)
DigitsValue(text, i, n, acc) ==
  IF n = 0 THEN acc
  ELSE DigitsValue(text, i + 1, n - 1, acc * 10 + DigitVal(text[i]))

RECURSIVE Normalise(_)
Normalise(f) ==
  IF f.e > 0 /\ f.m % 10 = 0 THEN Normalise([m |-> f.m \div 10, e |-> f.e - 1])
  ELSE f

\* re.search(r'(\d{1,3}\.?\d*)', response) followed by float(match.group(1)):
\* None when the text has no digit, else the float of the first match.
ParseTemperature(text) ==
  IF \A i \in 1..Len(text) : text[i] \notin Digits THEN None
  ELSE
    LET s == CHOOSE i \in 1..Len(text) :
               /\ text[i] \in Digits
               /\ \A j \in 1..(i - 1) : text[j] \notin Digits
        a == DigitRun(text, s, 3)
        dot == (s + a <= Len(text)) /\ text[s + a] = "."
        t == IF dot THEN s + a + 1 ELSE s + a
        b == DigitRun(text, t, Len(text))
        whole == DigitsValue(text, s, a, 0)
    IN  IF dot
        THEN Some(Normalise([m |-> DigitsValue(text, t, b, whole), e |-> b]))
        ELSE Some([m |-> DigitsValue(text, t, b, whole), e |-> 0])

RECURSIVE Pow10(_)
Pow10(n) == IF n = 0 THEN 1 ELSE 10 * Pow10(n - 1)

\* a > b on floats
FloatGt(a, b) == a.m * Pow10(b.e) > b.m * Pow10(a.e)

\* what one transport attempt can give: a decoded line (empty when the read
\* timed out), a caught error (SerialException, UnicodeDecodeError, OSError),
\* the SerialException of a port that does not exist, or any other exception
Responses ==
  { <<"1", "9", "0">>,
    <<"T", "=", "1", "7", "0", ".", "5", "C">>,
    <<"1", "8", "0", ".", "0">>,
    <<"E", "R", "R">>,
    <<>> }
AttemptOutcomes ==
  {[kind |-> "text", text |-> r] : r \in Responses}
    \cup {[kind |-> k, text |-> <<>>] : k \in {"error", "missing", "unexpected"}}

\* further decoded lines, tried on the parsing alone: a sign, more than three
\* digits, several numbers, a number inside other text, no digit before the
\* point
ProbeTexts ==
  { <<"-", "5", ".", "0">>,
    <<"+", "7">>,
    <<"1", "2", "3", "4">>,
    <<"1", "2", "3", "4", ".", "5">>,
    <<"1", "2", ".", "5", " ", "3", "4">>,
    <<"a", "1", "b", "2">>,
    <<".", "5">>,
    <<"-">> }

VARIABLES
  config,                 \* hysteresis_threshold and check_interval in use
  pc,                     \* position of the main loop
  clock,                  \* current time
  start_time,             \* time.monotonic() at the top of the cycle
  over_temp_counts,       \* device -> consecutive over-limit count
  last_shutdown_attempt,  \* None or Some(time)
  workers,                \* device -> state of its get_temperature future
  results,                \* the list built by the as_completed loop
  verdict,                \* outcome of check_temperatures in this cycle
  cycle,                  \* number of cycles started
  invocations,            \* history: times at which the power-off command was started
  hist,                   \* history: device -> kind of its outcome in every batch
  seen,                   \* history: what the current cycle started from and did
  call,                   \* one get_temperature call on its own, with its outcomes
  temp_log,               \* the lines of the results file, followed by LogCycle alone
  process,                \* what the process was started with, and whether a
                          \* stop signal has been delivered
  motion,                 \* motion_monitor.py: position of main and of
                          \* connect_to_serial, followed by SpecMotion alone
  eq80                    \* eq80_check.py: position of the monitoring pass,
                          \* followed by SpecEq80 alone

vars == <<config, pc, clock, start_time, over_temp_counts, last_shutdown_attempt,
          workers, results, verdict, cycle, invocations, hist, seen, call, temp_log, process, motion, eq80>>

\* a process started without a configuration file, with every device there
Started ==
  [file |-> "absent", user |-> "good", present |-> Devices, test |-> FALSE,
   signalled |-> FALSE]

Idle == [attempt |-> 0, sleeps |-> 0, state |-> "idle", temp |-> None]

NoCall == [w |-> [Idle EXCEPT !.state = "running"], trace |-> <<>>]

NoCycle ==
  [counts |-> [d \in Devices |-> 0], last |-> None, invoked |-> 0,
   guard |-> "none", at |-> 0, command |-> "none", ran |-> None]

\* motion_monitor.py: main has entered its first call of connect_to_serial
MotionStart ==
  [pc |-> "connect", attempts |-> 0, tries |-> 0, waited |-> 0, open |-> 0,
   calls |-> 1, before |-> 0, led |-> "none"]

\* eq80_check.py: start_monitoring_service is at the top of its loop
Eq80Start ==
  [pc |-> "start", i |-> 1, high_temp_detected |-> FALSE, runs |-> 0,
   outcomes |-> <<>>, passes |-> 0]

Init ==
  /\ config \in [hysteresis_threshold : HysteresisThresholds,
                 check_interval : CheckIntervals]
  /\ pc = "start"
  /\ clock = 0
  /\ start_time = 0
  /\ over_temp_counts = [d \in Devices |-> 0]
  /\ last_shutdown_attempt = None
  /\ workers = [d \in Devices |-> Idle]
  /\ results = <<>>
  /\ verdict = "pending"
  /\ cycle = 0
  /\ invocations = <<>>
  /\ hist = [d \in Devices |-> <<>>]
  /\ seen = NoCycle
  /\ call = NoCall
  /\ temp_log = <<>>
  /\ process = Started
  /\ motion = MotionStart
  /\ eq80 = Eq80Start

\* ------------------------------------------------------------ main loop
\* top of the while loop and the executor.submit of every device
BeginCycle ==
  /\ pc = "start"
  /\ cycle < MaxCycles
  /\ pc' = "poll"
  /\ start_time' = clock
  /\ workers' = [d \in Devices |-> [Idle EXCEPT !.state = "running"]]
  /\ results' = <<>>
  /\ verdict' = "pending"
  /\ cycle' = cycle + 1
  /\ seen' = [NoCycle EXCEPT !.counts = over_temp_counts,
                             !.last = last_shutdown_attempt,
                             !.invoked = Len(invocations)]
  /\ UNCHANGED <<config, clock, over_temp_counts, last_shutdown_attempt,
                 invocations, hist, call, temp_log, process, motion, eq80>>

\* ------------------------------------------------------- get_temperature
\* what the search and the conversion of lines 107-109 give for each response
ParsedResponse == [r \in Responses \cup ProbeTexts |-> ParseTemperature(r)]

\* variant: the backoff sleep is also made after the last attempt
AfterAttemptSleepsAfterLast(w, o) ==
  LET n == w.attempt + 1
      parsed == IF o.kind = "text" THEN ParsedResponse[o.text] ELSE None
  IN  IF o.kind = "unexpected"
      THEN [w EXCEPT !.attempt = n, !.state = "raised"]
      ELSE IF parsed # None
      THEN [w EXCEPT !.attempt = n, !.state = "done", !.temp = parsed]
      ELSE IF n < retry_count
      THEN [w EXCEPT !.attempt = n, !.sleeps = w.sleeps + 1]
      ELSE [w EXCEPT !.attempt = n, !.sleeps = w.sleeps + 1, !.state = "done"]

\* variant: a port that does not exist ends the call at once
AfterAttemptMissingFatal(w, o) ==
  LET n == w.attempt + 1
      parsed == IF o.kind = "text" THEN ParsedResponse[o.text] ELSE None
  IN  IF o.kind = "unexpected"
      THEN [w EXCEPT !.attempt = n, !.state = "raised"]
      ELSE IF o.kind = "missing"
      THEN [w EXCEPT !.attempt = n, !.state = "done"]
      ELSE IF parsed # None
      THEN [w EXCEPT !.attempt = n, !.state = "done", !.temp = parsed]
      ELSE IF n < retry_count
      THEN [w EXCEPT !.attempt = n, !.sleeps = w.sleeps + 1]
      ELSE [w EXCEPT !.attempt = n, !.state = "done"]

\* variant: the except clause does not catch the transport error
AfterAttemptErrorPropagates(w, o) ==
  LET n == w.attempt + 1
      parsed == IF o.kind = "text" THEN ParsedResponse[o.text] ELSE None
  IN  IF o.kind \in {"unexpected", "error"}
      THEN [w EXCEPT !.attempt = n, !.state = "raised"]
      ELSE IF parsed # None
      THEN [w EXCEPT !.attempt = n, !.state = "done", !.temp = parsed]
      ELSE IF n < retry_count
      THEN [w EXCEPT !.attempt = n, !.sleeps = w.sleeps + 1]
      ELSE [w EXCEPT !.attempt = n, !.state = "done"]

\* variant: a response without a number ends the call at once
AfterAttemptParseFatal(w, o) ==
  LET n == w.attempt + 1
      parsed == IF o.kind = "text" THEN ParsedResponse[o.text] ELSE None
  IN  IF o.kind = "unexpected"
      THEN [w EXCEPT !.attempt = n, !.state = "raised"]
      ELSE IF parsed # None
      THEN [w EXCEPT !.attempt = n, !.state = "done", !.temp = parsed]
      ELSE IF o.kind = "text"
      THEN [w EXCEPT !.attempt = n, !.state = "done"]
      ELSE IF n < retry_count
      THEN [w EXCEPT !.attempt = n, !.sleeps = w.sleeps + 1]
      ELSE [w EXCEPT !.attempt = n, !.state = "done"]

\* variant: the backoff sleep is made before a reading is returned
AfterAttemptSleepsOnSuccess(w, o) ==
  LET n == w.attempt + 1
      parsed == IF o.kind = "text" THEN ParsedResponse[o.text] ELSE None
  IN  IF o.kind = "unexpected"
      THEN [w EXCEPT !.attempt = n, !.state = "raised"]
      ELSE IF parsed # None
      THEN [w EXCEPT !.attempt = n, !.sleeps = w.sleeps + 1, !.state = "done",
                     !.temp = parsed]
      ELSE IF n < retry_count
      THEN [w EXCEPT !.attempt = n, !.sleeps = w.sleeps + 1]
      ELSE [w EXCEPT !.attempt = n, !.state = "done"]

\* variant: after the last attempt the retry loop starts over
AfterAttemptRetriesForever(w, o) ==
  LET n == w.attempt + 1
      parsed == IF o.kind = "text" THEN ParsedResponse[o.text] ELSE None
  IN  IF o.kind = "unexpected"
      THEN [w EXCEPT !.attempt = n, !.state = "raised"]
      ELSE IF parsed # None
      THEN [w EXCEPT !.attempt = n, !.state = "done", !.temp = parsed]
      ELSE IF n < retry_count
      THEN [w EXCEPT !.attempt = n, !.sleeps = w.sleeps + 1]
      ELSE [w EXCEPT !.attempt = 0, !.sleeps = 0]

\* one pass of the retry loop of a worker w that meets attempt outcome o
\* attempt counts the passes begun (one serial.Serial open each), sleeps the
\* time.sleep(retry_delay) calls made
AfterAttempt(w, o) ==
  LET n == w.attempt + 1
      parsed == IF o.kind = "text" THEN ParsedResponse[o.text] ELSE None
  IN  IF o.kind = "unexpected"
      THEN [w EXCEPT !.attempt = n, !.state = "raised"]
      ELSE IF parsed # None
      THEN [w EXCEPT !.attempt = n, !.state = "done", !.temp = parsed]
      ELSE IF n < retry_count
      THEN [w EXCEPT !.attempt = n, !.sleeps = w.sleeps + 1]
      ELSE [w EXCEPT !.attempt = n, !.state = "done"]

\* ---------------------------------------------------- check_temperatures
\* variant: the pair of a future that raised is not appended
CollectResultDropRaised(res, d, w) ==
  IF w.state = "raised" THEN res ELSE Append(res, <<d, w.temp>>)

\* body of the as_completed loop for the finished future w of device d
CollectResult(res, d, w) == Append(res, <<d, w.temp>>)

Collected == [Idle EXCEPT !.state = "collected"]

\* variant: the worker itself counts an over-limit reading
WorkerCountsReading(counts, d, w) ==
  IF w.temp # None /\ FloatGt(w.temp[1], max_temp)
  THEN [counts EXCEPT ![d] = counts[d] + 1] ELSE counts

\* over_temp_counts after a pass of get_temperature for device d that left
\* the worker as w: the function assigns no module global
WorkerWrites(counts, d, w) == counts

\* One attempt of the worker of device d.  A worker that goes on stays
\* running; one that returns or raises is at once taken by the as_completed
\* loop of the main thread, so results is in completion order.
Attempt(d) ==
  /\ pc = "poll"
  /\ workers[d].state = "running"
  /\ \E o \in AttemptOutcomes :
       LET w == AfterAttempt(workers[d], o)
       IN  /\ workers' = [workers EXCEPT
                            ![d] = IF w.state = "running" THEN w ELSE Collected]
           /\ results' = IF w.state = "running" THEN results
                         ELSE CollectResult(results, d, w)
           /\ over_temp_counts' = WorkerWrites(over_temp_counts, d, w)
  /\ UNCHANGED <<config, pc, clock, start_time, last_shutdown_attempt, verdict,
                 cycle, invocations, hist, seen, call, temp_log, process, motion, eq80>>

OverLimit(temp) == FloatGt(temp, max_temp)

\* variant: emergency only once the counter is past the threshold
ProcessOneStrict(st, item, threshold) ==
  LET d == item[1]
      temp == item[2]
  IN  IF temp = None THEN st
      ELSE IF OverLimit(temp[1])
      THEN LET n == st.counts[d] + 1
           IN  [counts |-> [st.counts EXCEPT ![d] = n],
                emergency |-> st.emergency \/ (n > threshold)]
      ELSE [st EXCEPT !.counts[d] = 0]

\* variant: a read failure resets the counter
ProcessOneResetOnFailure(st, item, threshold) ==
  LET d == item[1]
      temp == item[2]
  IN  IF temp = None THEN [st EXCEPT !.counts[d] = 0]
      ELSE IF OverLimit(temp[1])
      THEN LET n == st.counts[d] + 1
           IN  [counts |-> [st.counts EXCEPT ![d] = n],
                emergency |-> st.emergency \/ (n >= threshold)]
      ELSE [st EXCEPT !.counts[d] = 0]

\* variant: a reading within the limit takes one off the counter
ProcessOneDecrement(st, item, threshold) ==
  LET d == item[1]
      temp == item[2]
  IN  IF temp = None THEN st
      ELSE IF OverLimit(temp[1])
      THEN LET n == st.counts[d] + 1
           IN  [counts |-> [st.counts EXCEPT ![d] = n],
                emergency |-> st.emergency \/ (n >= threshold)]
      ELSE [st EXCEPT !.counts[d] = st.counts[d] - 1]

\* variant: a stored counter at the threshold is an emergency on its own
ProcessOneStoredCounter(st, item, threshold) ==
  LET d == item[1]
      temp == item[2]
  IN  IF temp = None
      THEN [st EXCEPT !.emergency = st.emergency \/ (st.counts[d] >= threshold)]
      ELSE IF OverLimit(temp[1])
      THEN LET n == st.counts[d] + 1
           IN  [counts |-> [st.counts EXCEPT ![d] = n],
                emergency |-> st.emergency \/ (n >= threshold)]
      ELSE [st EXCEPT !.counts[d] = 0]

\* one pass of the "for device, temp in results" loop on the pair item,
\* from st = [counts, emergency]
ProcessOne(st, item, threshold) ==
  LET d == item[1]
      temp == item[2]
  IN  IF temp = None THEN st
      ELSE IF OverLimit(temp[1])
      THEN LET n == st.counts[d] + 1
           IN  [counts |-> [st.counts EXCEPT ![d] = n],
                emergency |-> st.emergency \/ (n >= threshold)]
      ELSE [st EXCEPT !.counts[d] = 0]

\* variant: the loop is left at the first read failure
RECURSIVE ProcessUntilFailure(_, _, _, _)
ProcessUntilFailure(st, res, k, threshold) ==
  IF k = 0 THEN st
  ELSE IF \E j \in 1..k : res[j][2] = None
  THEN ProcessUntilFailure(st, res, k - 1, threshold)
  ELSE ProcessOne(ProcessUntilFailure(st, res, k - 1, threshold), res[k], threshold)

\* the loop over the first k pairs of res
RECURSIVE ProcessPrefix(_, _, _, _)
ProcessPrefix(st, res, k, threshold) ==
  IF k = 0 THEN st
  ELSE ProcessOne(ProcessPrefix(st, res, k - 1, threshold), res[k], threshold)

\* history only: what the pair of device d in res is, as the hysteresis
\* rule of the specification reads it
OutcomeOf(res, d) ==
  IF \A j \in 1..Len(res) : res[j][1] # d THEN "missing"
  ELSE LET temp == res[CHOOSE j \in 1..Len(res) : res[j][1] = d][2]
       IN  IF temp = None THEN "failure"
           ELSE IF FloatGt(temp[1], max_temp) THEN "over" ELSE "within"

\* variant: the results are processed without waiting for the futures
NoneAwaited(ws) == TRUE

\* variant: the loop over the futures ends with the first one taken
SomeDone(ws) == \E d \in Devices : ws[d].state = "collected"

\* the as_completed loop has taken every future and the executor block has
\* been left, which waits for every worker
AllDone(ws) == \A d \in Devices : ws[d].state = "collected"

\* The executor block ends once every future is collected; the results are
\* then processed while the results file is open.  failAt = k < Len + 1
\* stands for open() (k = 0), the write of pair k + 1 or the closing flush
\* (k = Len) raising after k pairs were processed; failAt = Len + 1 for none.
ProcessResults ==
  /\ pc = "poll"
  /\ AllDone(workers)
  /\ \E p \in PollTimes, failAt \in 0..(Len(results) + 1) :
       LET k == IF failAt > Len(results) THEN Len(results) ELSE failAt
           st == ProcessPrefix([counts |-> over_temp_counts, emergency |-> FALSE],
                               results, k, config.hysteresis_threshold)
       IN  /\ clock' = clock + p
           /\ over_temp_counts' = st.counts
           /\ verdict' = IF failAt <= Len(results) THEN "raised"
                         ELSE IF st.emergency THEN "true" ELSE "false"
  /\ hist' = [d \in Devices |-> Append(hist[d], OutcomeOf(results, d))]
  /\ pc' = "checked"
  /\ workers' = [d \in Devices |->
                   IF workers[d].state = "collected" THEN Idle ELSE workers[d]]
  /\ results' = <<>>
  /\ UNCHANGED <<config, start_time, last_shutdown_attempt, cycle, invocations,
                 seen, call, temp_log, process, motion, eq80>>

\* -------------------------------------------------------- power_off_system
\* variant: a window one minute shorter
TooSoonShortWindow(last, now) == last # None /\ now - last[1] < Cooldown - 1

\* variant: the end of the window is still too soon
TooSoonInclusive(last, now) == last # None /\ now - last[1] <= Cooldown

\* "if last_shutdown_attempt and (now - last_shutdown_attempt) < 5 minutes"
TooSoon(last, now) == last # None /\ now - last[1] < Cooldown

\* variant: the guard is entered whenever check_temperatures returns
WantsPowerOffAlways(v) == v \in {"true", "false"}

\* "if check_temperatures():" of main_loop
WantsPowerOff(v) == v = "true"

\* variant: an exception ends the process
FailureIsFatal(where) == "crashed"

\* where the loop goes on after an exception of check_temperatures
\* ("evaluate", caught by the except of main_loop) or of subprocess.run
\* ("command", caught inside power_off_system)
AfterFailure(where) == "sleeping"

SkipPowerOff ==
  /\ pc = "checked"
  /\ ~WantsPowerOff(verdict)
  /\ pc' = IF verdict = "raised" THEN AfterFailure("evaluate") ELSE "sleeping"
  /\ UNCHANGED <<config, clock, start_time, over_temp_counts,
                 last_shutdown_attempt, workers, results, verdict, cycle,
                 invocations, hist, seen, call, temp_log, process, motion, eq80>>

\* variant: a refusal records the refused attempt
StampRefreshedOnRefusal(last, now) == Some(now)

\* the timestamp after the early return of line 186
StampOnRefusal(last, now) == last

PowerOffRefused ==
  /\ pc = "checked"
  /\ WantsPowerOff(verdict)
  /\ TooSoon(last_shutdown_attempt, clock)
  /\ last_shutdown_attempt' = StampOnRefusal(last_shutdown_attempt, clock)
  /\ pc' = "sleeping"
  /\ seen' = [seen EXCEPT !.guard = "refused", !.at = clock]
  /\ UNCHANGED <<config, clock, start_time, over_temp_counts,
                 workers, results, verdict, cycle,
                 invocations, hist, call, temp_log, process, motion, eq80>>

\* variant: the timestamp is not written before the command
StampNotWritten(last, now) == last

\* the timestamp written before subprocess.run is entered
StampBeforeCommand(last, now) == Some(now)

\* the command of DEFAULT_CONFIG, the one a configuration file may set in its
\* place, and the one of the test mode
DefaultPowerOffCommand == <<"/usr/sbin/powercycle", "chroma", "--power-off">>
UserPowerOffCommand == <<"/sbin/poweroff">>
TestPowerOffCommand == <<"echo", "TEST MODE: Would execute:">>

\* variant: the test command is set before the file is loaded over it
PowerOffCommandTestFirst(p) ==
  IF p.file = "valid" THEN UserPowerOffCommand
  ELSE IF p.test THEN TestPowerOffCommand ELSE DefaultPowerOffCommand

\* config["power_off_command"] of a process started as p: load_config puts
\* the file's value over the default, then --test puts its own over both
PowerOffCommand(p) ==
  IF p.test THEN TestPowerOffCommand
  ELSE IF p.file = "valid" THEN UserPowerOffCommand ELSE DefaultPowerOffCommand

PowerOffStart ==
  /\ pc = "checked"
  /\ WantsPowerOff(verdict)
  /\ ~TooSoon(last_shutdown_attempt, clock)
  /\ last_shutdown_attempt' = StampBeforeCommand(last_shutdown_attempt, clock)
  /\ invocations' = Append(invocations, clock)
  /\ pc' = "command"
  /\ seen' = [seen EXCEPT !.guard = "invoked", !.at = clock,
                          !.ran = Some(PowerOffCommand(process))]
  /\ UNCHANGED <<config, clock, start_time, over_temp_counts, workers, results,
                 verdict, cycle, hist, call, temp_log, process, motion, eq80>>

CommandOutcomes == {"ok", "nonzero", "timeout", "error"}

\* variant: a failed command clears the timestamp
StampClearedOnFailure(last, o) == IF o = "ok" THEN last ELSE None

\* the timestamp once subprocess.run has returned or raised with outcome o
StampAfterCommand(last, o) == last

\* subprocess.run ends: exit 0, CalledProcessError, TimeoutExpired after the
\* 30 s limit, or another exception; every one is logged and swallowed
CommandEnds ==
  /\ pc = "command"
  /\ \E o \in CommandOutcomes, t \in CommandTimes :
       /\ clock' = clock + t
       /\ last_shutdown_attempt' = StampAfterCommand(last_shutdown_attempt, o)
       /\ seen' = [seen EXCEPT !.command = o]
       /\ pc' = IF o = "ok" THEN "sleeping" ELSE AfterFailure("command")
  /\ UNCHANGED <<config, start_time, over_temp_counts, workers, results,
                 verdict, cycle, invocations, hist, call, temp_log, process, motion, eq80>>

\* variant: the whole interval is slept whatever the cycle took
SleepTimeUncompensated(interval, elapsed) == interval

\* max(0, check_interval - elapsed)
SleepTime(interval, elapsed) ==
  IF interval - elapsed > 0 THEN interval - elapsed ELSE 0

Sleep ==
  /\ pc = "sleeping"
  /\ clock' = clock + SleepTime(config.check_interval, clock - start_time)
  /\ pc' = "start"
  /\ verdict' = "pending"
  /\ seen' = NoCycle
  /\ UNCHANGED <<config, start_time, over_temp_counts, last_shutdown_attempt,
                 workers, results, cycle, invocations, hist, call, temp_log, process, motion, eq80>>

Next ==
  \/ BeginCycle
  \/ \E d \in Devices : Attempt(d)
  \/ ProcessResults
  \/ SkipPowerOff
  \/ PowerOffRefused
  \/ PowerOffStart
  \/ CommandEnds
  \/ Sleep

Spec == Init /\ [][Next]_vars

\* --------------------------------------------- get_temperature on its own
\* One call of get_temperature against every sequence of attempt outcomes;
\* the worker it ends as is kept with the outcomes it met.
FetchAttempt ==
  /\ call.w.state = "running"
  /\ \E o \in AttemptOutcomes :
       call' = [w |-> AfterAttempt(call.w, o), trace |-> Append(call.trace, o)]
  /\ UNCHANGED <<config, pc, clock, start_time, over_temp_counts,
                 last_shutdown_attempt, workers, results, verdict, cycle,
                 invocations, hist, seen, temp_log, process, motion, eq80>>

FetchNext == FetchAttempt

SpecFetch == Init /\ [][FetchNext]_vars

\* ------------------------------------------------------------ the startup
\* The configuration file: not there, not readable, not JSON, JSON that is
\* not an object, or an object; and what an object sets: nothing wrong, a
\* devices value that is no list, a log file that cannot be opened, a
\* max_temp that is no number.
ConfigFiles == {"absent", "unreadable", "invalid", "not_object", "valid"}
UserSettings == {"good", "bad_devices", "bad_log_file", "bad_max_temp"}

StartupInputs ==
  {i \in [file : ConfigFiles, user : UserSettings, present : SUBSET Devices,
          test : BOOLEAN, signalled : {FALSE}] :
     i.file # "valid" => i.user = "good"}

InitStartup ==
  /\ config \in [hysteresis_threshold : HysteresisThresholds,
                 check_interval : CheckIntervals]
  /\ pc = "load_config"
  /\ clock = 0
  /\ start_time = 0
  /\ over_temp_counts = [d \in {} |-> 0]
  /\ last_shutdown_attempt = None
  /\ workers = [d \in Devices |-> Idle]
  /\ results = <<>>
  /\ verdict = "pending"
  /\ cycle = 0
  /\ invocations = <<>>
  /\ hist = [d \in Devices |-> <<>>]
  /\ seen = NoCycle
  /\ call = NoCall
  /\ temp_log = <<>>
  /\ process \in StartupInputs
  /\ motion = MotionStart
  /\ eq80 = Eq80Start

\* load_config: the defaults, updated from the file when it can be read as
\* JSON; an error of reading or decoding is logged and the defaults stay
LoadedSettings(p) == IF p.file = "valid" THEN p.user ELSE "good"

\* conf.update of a JSON value that is not an object raises, outside any try
LoadConfig ==
  /\ pc = "load_config"
  /\ pc' = IF process.file = "not_object" THEN "exit1" ELSE "setup_logging"
  /\ UNCHANGED <<config, clock, start_time, over_temp_counts,
                 last_shutdown_attempt, workers, results, verdict, cycle,
                 invocations, hist, seen, call, temp_log, process, motion, eq80>>

\* logging.basicConfig opens the log file and raises when it cannot
SetupLogging ==
  /\ pc = "setup_logging"
  /\ pc' = IF LoadedSettings(process) = "bad_log_file" THEN "exit1" ELSE "init_counts"
  /\ UNCHANGED <<config, clock, start_time, over_temp_counts,
                 last_shutdown_attempt, workers, results, verdict, cycle,
                 invocations, hist, seen, call, temp_log, process, motion, eq80>>

\* variant: the startup looks for every configured device
DevicesMustExist(present) == present = Devices

\* what the startup asks of the devices under /dev: nothing
DevicesResolved(present) == TRUE

\* over_temp_counts = {device: 0 for device in config["devices"]}
InitCounts ==
  /\ pc = "init_counts"
  /\ IF LoadedSettings(process) = "bad_devices" \/ ~DevicesResolved(process.present)
     THEN pc' = "exit1" /\ UNCHANGED over_temp_counts
     ELSE pc' = "handlers" /\ over_temp_counts' = [d \in Devices |-> 0]
  /\ UNCHANGED <<config, clock, start_time,
                 last_shutdown_attempt, workers, results, verdict, cycle,
                 invocations, hist, seen, call, temp_log, process, motion, eq80>>

\* signal.signal for SIGINT and SIGTERM, then main_loop is entered
RegisterHandlers ==
  /\ pc = "handlers"
  /\ pc' = "start"
  /\ UNCHANGED <<config, clock, start_time, over_temp_counts,
                 last_shutdown_attempt, workers, results, verdict, cycle,
                 invocations, hist, seen, call, temp_log, process, motion, eq80>>

StartupNext == LoadConfig \/ SetupLogging \/ InitCounts \/ RegisterHandlers

SpecStartup == InitStartup /\ [][StartupNext]_vars

\* ------------------------------------------------------- the stop signal
\* variant: the exit of the handler is caught like an error of the cycle
StopSignalCaught(where) ==
  IF where \in {"poll", "checked", "command"} THEN "sleeping" ELSE "stopping"

\* shutdown_handler calls sys.exit(0) in the main thread: SystemExit is no
\* Exception, so no except clause of the loop or of power_off_system takes it
AfterStopSignal(where) == "stopping"

\* SIGINT or SIGTERM is delivered while the loop is at any position
Signal ==
  /\ pc \in {"start", "poll", "checked", "command", "sleeping"}
  /\ pc' = AfterStopSignal(pc)
  /\ process' = [process EXCEPT !.signalled = TRUE]
  /\ UNCHANGED <<config, clock, start_time, over_temp_counts,
                 last_shutdown_attempt, workers, results, verdict, cycle,
                 invocations, hist, seen, call, temp_log, motion, eq80>>

\* SystemExit leaves the executor block, which waits for the workers still
\* running; each goes on with its attempts and its result is dropped
DrainWorker(d) ==
  /\ pc = "stopping"
  /\ workers[d].state = "running"
  /\ \E o \in AttemptOutcomes :
       workers' = [workers EXCEPT ![d] = AfterAttempt(workers[d], o)]
  /\ UNCHANGED <<config, pc, clock, start_time, over_temp_counts,
                 last_shutdown_attempt, results, verdict, cycle,
                 invocations, hist, seen, call, temp_log, process, motion, eq80>>

\* no worker is left: SystemExit(0) ends the process with status 0
ExitProcess ==
  /\ pc = "stopping"
  /\ \A d \in Devices : workers[d].state # "running"
  /\ pc' = "exit0"
  /\ UNCHANGED <<config, clock, start_time, over_temp_counts,
                 last_shutdown_attempt, workers, results, verdict, cycle,
                 invocations, hist, seen, call, temp_log, process, motion, eq80>>

StopNext ==
  \/ Next /\ cycle' <= MaxStopCycles
  \/ Signal
  \/ \E d \in Devices : DrainWorker(d)
  \/ ExitProcess

\* the unwinding of SystemExit and the workers' attempts are not held up
SpecStop ==
  /\ Init
  /\ [][StopNext]_vars
  /\ WF_vars(ExitProcess)
  /\ \A d \in Devices : WF_vars(DrainWorker(d))

\* ------------------------------------------------------ the running cycle
\* The loop left to run, with no stop signal.  Every step of a cycle ends in
\* bounded time: an attempt by the wakeup delay and the timeout of readline,
\* the processing of the results by the file calls, the guard by its own
\* code, the command by the timeout of subprocess.run.
LiveNext ==
  \/ BeginCycle /\ cycle' <= MaxStopCycles
  \/ \E d \in Devices : Attempt(d)
  \/ ProcessResults
  \/ SkipPowerOff
  \/ PowerOffRefused
  \/ PowerOffStart
  \/ CommandEnds
  \/ Sleep

SpecLive ==
  /\ Init
  /\ [][LiveNext]_vars
  /\ \A d \in Devices : WF_vars(Attempt(d))
  /\ WF_vars(ProcessResults)
  /\ WF_vars(SkipPowerOff \/ PowerOffRefused \/ PowerOffStart)
  /\ WF_vars(CommandEnds)

\* ----------------------------------------------------------- the test mode
\* The loop of a process that came through its startup, started with or
\* without --test, with or without a configuration file that names a
\* power-off command of its own.
TestInputs ==
  {p \in StartupInputs :
     p.present = Devices /\ p.user = "good" /\ p.file \in {"absent", "valid"}}

InitTest ==
  /\ config \in [hysteresis_threshold : HysteresisThresholds,
                 check_interval : CheckIntervals]
  /\ pc = "start"
  /\ clock = 0
  /\ start_time = 0
  /\ over_temp_counts = [d \in Devices |-> 0]
  /\ last_shutdown_attempt = None
  /\ workers = [d \in Devices |-> Idle]
  /\ results = <<>>
  /\ verdict = "pending"
  /\ cycle = 0
  /\ invocations = <<>>
  /\ hist = [d \in Devices |-> <<>>]
  /\ seen = NoCycle
  /\ call = NoCall
  /\ temp_log = <<>>
  /\ process \in TestInputs
  /\ motion = MotionStart
  /\ eq80 = Eq80Start

SpecTest == InitTest /\ [][LiveNext]_vars

\* ------------------------------------------------------ motion_monitor.py
MAX_RECONNECT_ATTEMPTS == 5
RETRY_DELAY == 10
FULL_RESTART_DELAY == 30
LED_BLUE == "11"
LED_GREEN == "10"

\* variant: the delay is slept after the last failed attempt too
AfterConnectFailureSleepsAlways(m) ==
  LET n == m.attempts + 1
  IN  [m EXCEPT !.attempts = n, !.tries = @ + 1,
                !.waited = @ + RETRY_DELAY,
                !.pc = IF n < MAX_RECONNECT_ATTEMPTS THEN "connect" ELSE "failed"]

\* the except clause of connect_to_serial: the failure is counted, the delay
\* is slept when an attempt is left, and the while condition either goes on
\* or falls through to "return None"
AfterConnectFailure(m) ==
  LET n == m.attempts + 1
  IN  [m EXCEPT !.attempts = n, !.tries = @ + 1,
                !.waited = IF n < MAX_RECONNECT_ATTEMPTS THEN @ + RETRY_DELAY ELSE @,
                !.pc = IF n < MAX_RECONNECT_ATTEMPTS THEN "connect" ELSE "failed"]

\* serial.Serial succeeded: "return ser", and main enters its read loop
AfterConnectSuccess(m) ==
  [m EXCEPT !.tries = @ + 1, !.open = @ + 1, !.pc = "listening"]

\* one pass of the while loop of connect_to_serial
ConnectAttempt ==
  /\ motion.pc = "connect"
  /\ motion.attempts < MAX_RECONNECT_ATTEMPTS
  /\ \E ok \in BOOLEAN :
       motion' = IF ok THEN AfterConnectSuccess(motion)
                 ELSE AfterConnectFailure(motion)
  /\ UNCHANGED <<config, pc, clock, start_time, over_temp_counts,
                 last_shutdown_attempt, workers, results, verdict, cycle,
                 invocations, hist, seen, call, temp_log, process, eq80>>

\* "if not serial_connection": the sleep, then "continue" to a new call
RestartWait ==
  /\ motion.pc = "failed"
  /\ motion.calls < MaxConnects
  /\ motion' = [motion EXCEPT !.pc = "connect", !.attempts = 0, !.tries = 0,
                              !.waited = 0, !.before = FULL_RESTART_DELAY,
                              !.calls = @ + 1]
  /\ UNCHANGED <<config, pc, clock, start_time, over_temp_counts,
                 last_shutdown_attempt, workers, results, verdict, cycle,
                 invocations, hist, seen, call, temp_log, process, eq80>>

\* what read_serial_data returns: a stripped line (empty after a read
\* timeout) or None after a decoding error
SerialLines ==
  {Some("Motion detected!"), Some("Motion ended!"), Some("noise"), Some(""), None}

\* the command code main passes to run_led_script for a line, if any
LedAfter(led, line) ==
  IF line = Some("Motion detected!") THEN LED_BLUE
  ELSE IF line = Some("Motion ended!") THEN LED_GREEN
  ELSE led

\* one pass of the read loop of main
ReadLine ==
  /\ motion.pc = "listening"
  /\ \E line \in SerialLines :
       motion' = [motion EXCEPT !.led = LedAfter(@, line)]
  /\ UNCHANGED <<config, pc, clock, start_time, over_temp_counts,
                 last_shutdown_attempt, workers, results, verdict, cycle,
                 invocations, hist, seen, call, temp_log, process, eq80>>

\* serial_connection.close() of the finally clause
Close(open) == open - 1

\* readline raises SerialException: the except clause logs, the finally
\* clause closes, and the outer loop calls connect_to_serial again
ConnectionLost ==
  /\ motion.pc = "listening"
  /\ motion.calls < MaxConnects
  /\ motion' = [motion EXCEPT !.pc = "connect", !.attempts = 0, !.tries = 0,
                              !.waited = 0, !.before = 0,
                              !.open = Close(@), !.calls = @ + 1]
  /\ UNCHANGED <<config, pc, clock, start_time, over_temp_counts,
                 last_shutdown_attempt, workers, results, verdict, cycle,
                 invocations, hist, seen, call, temp_log, process, eq80>>

\* any other exception of the read loop: the finally clause closes and the
\* exception leaves main
ReadLoopRaises ==
  /\ motion.pc = "listening"
  /\ motion' = [motion EXCEPT !.pc = "exit", !.open = Close(@)]
  /\ UNCHANGED <<config, pc, clock, start_time, over_temp_counts,
                 last_shutdown_attempt, workers, results, verdict, cycle,
                 invocations, hist, seen, call, temp_log, process, eq80>>

MotionNext == ConnectAttempt \/ RestartWait \/ ReadLine \/ ConnectionLost \/ ReadLoopRaises

SpecMotion == Init /\ [][MotionNext]_vars

\* --------------------------------------------------------- eq80_check.py
DEVICES == <<"txpaa1", "txpaa2", "txpaa3">>
TEMPERATURE_THRESHOLD == [m |-> 180, e |-> 0]

\* the first alternative of the pattern, [-+]?\d*\.\d+, tried at position i:
\* the position after an optional sign, the digits before the point and
\* those after it
SignAt(text, i) == i <= Len(text) /\ text[i] \in {"-", "+"}
WholeAt(text, i) == IF SignAt(text, i) THEN i + 1 ELSE i
PointAt(text, i) == WholeAt(text, i) + DigitRun(text, WholeAt(text, i), Len(text))
DecimalAt(text, i) ==
  /\ PointAt(text, i) <= Len(text)
  /\ text[PointAt(text, i)] = "."
  /\ IsDigitAt(text, PointAt(text, i) + 1)

\* re.search(r'[-+]?\d*\.\d+|\d+', raw_response) followed by
\* float(numeric_match.group()): the leftmost position where an alternative
\* matches, the first alternative before the second; None for no match
NumericMatch(text) ==
  IF \A i \in 1..Len(text) : ~DecimalAt(text, i) /\ ~IsDigitAt(text, i) THEN None
  ELSE
    LET s == CHOOSE i \in 1..Len(text) :
               /\ DecimalAt(text, i) \/ IsDigitAt(text, i)
               /\ \A j \in 1..(i - 1) : ~DecimalAt(text, j) /\ ~IsDigitAt(text, j)
    IN  IF DecimalAt(text, s)
        THEN LET w == WholeAt(text, s)
                 a == DigitRun(text, w, Len(text))
                 b == DigitRun(text, w + a + 1, Len(text))
                 mag == DigitsValue(text, w + a + 1, b, DigitsValue(text, w, a, 0))
             IN  Some(Normalise([m |-> IF SignAt(text, s) /\ text[s] = "-"
                                       THEN 0 - mag ELSE mag,
                                 e |-> b]))
        ELSE LET a == DigitRun(text, s, Len(text))
             IN  Some([m |-> DigitsValue(text, s, a, 0), e |-> 0])

\* what query_temperature_sensor returns: None after an exception, else the
\* stripped line, empty when the read timed out
RawResponses ==
  { <<"1", "9", "0">>,
    <<"T", "=", "1", "7", "0", ".", "5", "C">>,
    <<"1", "8", "0", ".", "0">>,
    <<"1", "8", "0", ".", "5">>,
    <<"-", "1", "9", "0", ".", "5">>,
    <<"E", "R", "R">>,
    <<>> }
Answers == {None} \cup {Some(r) : r \in RawResponses}

NumericMatches == [r \in RawResponses |-> NumericMatch(r)]

\* "if not raw_response": None and the empty line are skipped; a line
\* without a number raises ValueError, which is caught
CurrentTemp(answer) ==
  IF answer = None \/ answer[1] = <<>> THEN None ELSE NumericMatches[answer[1]]

\* one pass of the for loop of process_temperature_reading for the device
\* that gave answer, with the append to the results file ending as write:
\* the comparison with the threshold comes after the write, inside the same
\* try, so a write that raises leaves the flag as it was
AfterDevice(e, answer, write) ==
  LET temp == CurrentTemp(answer)
      hot == temp # None /\ write = "ok" /\ FloatGt(temp[1], TEMPERATURE_THRESHOLD)
  IN  [e EXCEPT !.i = @ + 1,
                !.high_temp_detected = @ \/ hot,
                !.outcomes = Append(@, [temp |-> temp,
                                        write |-> IF temp = None THEN "none" ELSE write]),
                !.pc = IF e.i = Len(DEVICES) THEN "decide" ELSE "devices"]

\* process_temperature_reading is called
BeginPass ==
  /\ eq80.pc = "start"
  /\ eq80.passes < MaxPasses
  /\ eq80' = [Eq80Start EXCEPT !.pc = "devices", !.passes = eq80.passes + 1]
  /\ UNCHANGED <<config, pc, clock, start_time, over_temp_counts,
                 last_shutdown_attempt, workers, results, verdict, cycle,
                 invocations, hist, seen, call, temp_log, process, motion>>

QueryDevice ==
  /\ eq80.pc = "devices"
  /\ \E answer \in Answers, write \in {"ok", "raises"} :
       eq80' = AfterDevice(eq80, answer, write)
  /\ UNCHANGED <<config, pc, clock, start_time, over_temp_counts,
                 last_shutdown_attempt, workers, results, verdict, cycle,
                 invocations, hist, seen, call, temp_log, process, motion>>

\* "if high_temp_detected: initiate_power_cycle()": one subprocess.run
RunsPerPass(e) == IF e.high_temp_detected THEN 1 ELSE 0

\* the end of the pass: the command, if any, returns, fails with
\* CalledProcessError (caught in initiate_power_cycle) or raises otherwise
\* (caught in start_monitoring_service); the loop goes to its sleep
EndPass ==
  /\ eq80.pc = "decide"
  /\ eq80' = [eq80 EXCEPT !.runs = RunsPerPass(eq80), !.pc = "sleep"]
  /\ UNCHANGED <<config, pc, clock, start_time, over_temp_counts,
                 last_shutdown_attempt, workers, results, verdict, cycle,
                 invocations, hist, seen, call, temp_log, process, motion>>

\* time.sleep(CHECK_INTERVAL)
Eq80Sleep ==
  /\ eq80.pc = "sleep"
  /\ eq80' = [eq80 EXCEPT !.pc = "start"]
  /\ UNCHANGED <<config, pc, clock, start_time, over_temp_counts,
                 last_shutdown_attempt, workers, results, verdict, cycle,
                 invocations, hist, seen, call, temp_log, process, motion>>

Eq80Next == BeginPass \/ QueryDevice \/ EndPass \/ Eq80Sleep

SpecEq80 == Init /\ [][Eq80Next]_vars

\* ------------------------------------------------------ the results file
\* variant: the file is opened for writing, not for appending
OpenTruncate(file) == <<>>

\* open(config["temp_file"], "a"): what the file holds once it is open
OpenAppend(file) == file

\* the line written for the pair item in a call whose timestamp is at
LineOf(at, item) ==
  [at |-> at, device |-> item[1],
   kind |-> IF item[2] = None THEN "READ_ERROR" ELSE "temperature",
   value |-> item[2]]

\* the file after the lines of the first k pairs of res were written
RECURSIVE WriteLines(_, _, _, _)
WriteLines(file, res, k, at) ==
  IF k = 0 THEN file
  ELSE Append(WriteLines(file, res, k - 1, at), LineOf(at, res[k]))

\* the lists the as_completed loop can build: one pair for every device, in
\* any order, each with a reading or the failure marker
DeviceOrders ==
  {o \in [1..Cardinality(Devices) -> Devices] :
     \A i, j \in 1..Cardinality(Devices) : o[i] = o[j] => i = j}
BatchTemps == {ParsedResponse[r] : r \in Responses}
Batches ==
  {[i \in 1..Cardinality(Devices) |-> <<o[i], t[o[i]]>>] :
     o \in DeviceOrders, t \in [Devices -> BatchTemps]}

\* One call of check_temperatures from the list it has built: the
\* timestamp is taken at the top of the call (line 130), the file is opened,
\* and every pair has its line written before its counter is stepped.
\* After an error of the file, of the lines written before it any number
\* may have reached the file.
LogCycle ==
  /\ pc = "start"
  /\ cycle < MaxLogCycles
  /\ \E batch \in Batches, failAt \in 0..(Cardinality(Devices) + 1) :
       LET k == IF failAt > Len(batch) THEN Len(batch) ELSE failAt
           st == ProcessPrefix([counts |-> over_temp_counts, emergency |-> FALSE],
                               batch, k, config.hysteresis_threshold)
       IN  /\ results' = batch
           /\ over_temp_counts' = st.counts
           /\ verdict' = IF failAt <= Len(batch) THEN "raised"
                         ELSE IF st.emergency THEN "true" ELSE "false"
           /\ IF failAt = 0
              THEN temp_log' = temp_log
              ELSE \E j \in (IF failAt <= Len(batch) THEN 0 ELSE k)..k :
                     temp_log' = WriteLines(OpenAppend(temp_log), batch, j, clock)
  /\ cycle' = cycle + 1
  /\ clock' = clock + config.check_interval
  /\ UNCHANGED <<config, pc, start_time, last_shutdown_attempt, workers,
                 invocations, hist, seen, call, process, motion, eq80>>

LogNext == LogCycle

SpecLog == Init /\ [][LogNext]_vars

\* ----------------------------------------------- the parsing on its own
\* One call of get_temperature whose every attempt reads a line.
ParseProbe ==
  /\ call.w.state = "running"
  /\ \E r \in Responses \cup ProbeTexts :
       LET o == [kind |-> "text", text |-> r]
       IN  call' = [w |-> AfterAttempt(call.w, o), trace |-> Append(call.trace, o)]
  /\ UNCHANGED <<config, pc, clock, start_time, over_temp_counts,
                 last_shutdown_attempt, workers, results, verdict, cycle,
                 invocations, hist, seen, temp_log, process, motion, eq80>>

ParseNext == ParseProbe

SpecParse == Init /\ [][ParseNext]_vars

\* ------------------------------------------- the sleep at the end of a cycle
\* The sleep step from every time a first cycle can have taken, for
\* intervals shorter and longer than that time.
SleepIntervals == {1, 3, 5}
StartTimes == 0..3
ElapsedTimes == 0..6

InitSleep ==
  /\ config \in [hysteresis_threshold : HysteresisThresholds,
                 check_interval : SleepIntervals]
  /\ pc = "sleeping"
  /\ start_time \in StartTimes
  /\ clock \in {start_time + e : e \in ElapsedTimes}
  /\ over_temp_counts = [d \in Devices |-> 0]
  /\ last_shutdown_attempt = None
  /\ workers = [d \in Devices |-> Idle]
  /\ results = <<>>
  /\ verdict = "false"
  /\ cycle = 1
  /\ invocations = <<>>
  /\ hist = [d \in Devices |-> <<"within">>]
  /\ seen = NoCycle
  /\ call = NoCall
  /\ temp_log = <<>>
  /\ process = Started
  /\ motion = MotionStart
  /\ eq80 = Eq80Start

SleepNext == Sleep

SpecSleep == InitSleep /\ [][SleepNext]_vars

\* ------------------------------------------------------------ properties
Last(h) == h[Len(h)]
Front(h) == SubSeq(h, 1, Len(h) - 1)

\* number of "over" outcomes of h since its last "within" outcome, failures
\* skipped
RECURSIVE TrailingRun(_)
TrailingRun(h) ==
  IF h = <<>> \/ Last(h) = "within" THEN 0
  ELSE IF Last(h) = "failure" THEN TrailingRun(Front(h))
  ELSE 1 + TrailingRun(Front(h))

Evaluated == pc \in {"checked", "command", "sleeping"}
Returned == Evaluated /\ verdict \in {"true", "false"}
GuardDone == pc \in {"command", "sleeping"}

\* C1: any two starts of the power-off command are at least the cooldown
\* apart, and a cycle that reports emergency less than the cooldown after
\* the recorded attempt is refused without starting the command.
CooldownInvariant ==
  /\ \A i, j \in DOMAIN invocations :
       i < j => invocations[j] - invocations[i] >= Cooldown
  /\ (GuardDone /\ verdict = "true" /\ seen.last # None
        /\ seen.at - seen.last[1] < Cooldown)
       => (seen.guard = "refused" /\ Len(invocations) = seen.invoked)

\* C1 witness: the command ran in cycle 1, the emergency of cycle 2 was
\* refused and the command ran again once the cooldown was over.
CooldownWitness ==
  /\ Len(invocations) = 2
  /\ \A d \in Devices : hist[d] = <<"over", "over", "over">>
  /\ config.hysteresis_threshold = 1

\* C2 (as claimed): with a threshold of at least 2 the power-off command is
\* started in a cycle only if some device has at least threshold "over"
\* outcomes with no "within" outcome of that device in between.
SpikeRejection ==
  (config.hysteresis_threshold >= 2 /\ seen.guard = "invoked")
    => \E d \in Devices : TrailingRun(hist[d]) >= config.hysteresis_threshold

\* C3 (as claimed): whenever check_temperatures returns, it returns true
\* exactly when some device's counter is at or above the threshold.
VerdictIffCounterAtThreshold ==
  Returned =>
    ((verdict = "true") <=>
       \E d \in Devices : over_temp_counts[d] >= config.hysteresis_threshold)

\* C3 (amended): whenever check_temperatures returns, it returns true
\* exactly when some device read above max_temp in this cycle and its
\* counter is then at or above the threshold.
VerdictIffHotAtThreshold ==
  Returned =>
    ((verdict = "true") <=>
       \E d \in Devices :
         /\ Last(hist[d]) = "over"
         /\ over_temp_counts[d] >= config.hysteresis_threshold)

\* C3 witness: a device at the threshold fails to read, no device reads
\* hot, and the cycle returns no emergency.
VerdictWitness ==
  /\ Returned
  /\ verdict = "false"
  /\ \E d \in Devices :
       /\ Last(hist[d]) = "failure"
       /\ over_temp_counts[d] >= config.hysteresis_threshold

\* C4 (as claimed): every device's counter equals the trailing run of its
\* outcomes.
CounterEqualsTrailingRun ==
  \A d \in Devices : over_temp_counts[d] = TrailingRun(hist[d])

\* C5: a device whose outcome in the cycle is a read failure keeps the
\* counter it had when the cycle began, and a cycle in which every device
\* failed to read reports no emergency.
ReadFailureKeepsCounter ==
  Evaluated =>
    /\ \A d \in Devices :
         Last(hist[d]) = "failure" => over_temp_counts[d] = seen.counts[d]
    /\ (\A d \in Devices : Last(hist[d]) = "failure") => verdict # "true"

\* C5 witness: a device with a counter of 1 has failed to read twice since.
ReadFailureWitness ==
  /\ Evaluated
  /\ \E d \in Devices :
       /\ hist[d] = <<"over", "failure", "failure">>
       /\ over_temp_counts[d] = 1

\* C6: while the power-off command runs, and after it has ended in any
\* way, the recorded attempt is the time at which the guard decided to act.
StampBeforeAction ==
  seen.guard = "invoked" =>
    /\ last_shutdown_attempt = Some(seen.at)
    /\ Last(invocations) = seen.at

\* C6 witness: the command has hit its timeout and the stamp is in place.
StampWitness ==
  /\ pc = "sleeping"
  /\ seen.command = "timeout"
  /\ last_shutdown_attempt = Some(seen.at)

\* C7: a cycle that reports emergency with no recorded attempt, or with at
\* least the cooldown elapsed since it, starts the command; a refusal
\* happens only strictly inside the cooldown.
GuardAvailability ==
  /\ (GuardDone /\ verdict = "true"
        /\ (seen.last = None \/ seen.at - seen.last[1] >= Cooldown))
       => (seen.guard = "invoked" /\ Len(invocations) = seen.invoked + 1)
  /\ seen.guard = "refused"
       => (seen.last # None /\ seen.at - seen.last[1] < Cooldown)

\* C7 witness: the command is started exactly one cooldown after the
\* recorded attempt.
GuardWitness ==
  /\ seen.guard = "invoked"
  /\ seen.last # None
  /\ seen.at - seen.last[1] = Cooldown

\* C8: the command is started at most once in a cycle, only by a cycle that
\* reported emergency outside the cooldown, and when it fails the recorded
\* attempt stays.
NoRetryInCycle ==
  /\ pc # "start" => Len(invocations) <= seen.invoked + 1
  /\ (pc # "start" /\ Len(invocations) > seen.invoked)
       => /\ verdict = "true"
          /\ (seen.last = None \/ seen.at - seen.last[1] >= Cooldown)
  /\ (pc = "sleeping" /\ seen.command \in {"nonzero", "timeout", "error"})
       => /\ last_shutdown_attempt = Some(seen.at)
          /\ Len(invocations) = seen.invoked + 1

\* C8 witness: the command has exited non-zero and the loop is at its
\* sleep.
NoRetryWitness ==
  /\ pc = "sleeping"
  /\ seen.command = "nonzero"
  /\ Len(invocations) = seen.invoked + 1

\* C9: in a cycle that reported no emergency the command is not started
\* and the recorded attempt is the one the cycle began with.
NoEmergencyNoGuard ==
  (Evaluated /\ verdict = "false") =>
    /\ pc # "command"
    /\ seen.guard = "none"
    /\ Len(invocations) = seen.invoked
    /\ last_shutdown_attempt = seen.last

\* C9 witness: a cycle without emergency has reached its sleep while an
\* earlier attempt is on record.
NoEmergencyWitness ==
  /\ pc = "sleeping"
  /\ verdict = "false"
  /\ last_shutdown_attempt # None

AllCollected == pc = "poll" /\ \A d \in Devices : workers[d].state = "collected"

\* C10: once every future is collected the results hold exactly one pair
\* for each configured device, a temperature or the failure marker.
OneOutcomePerDevice ==
  AllCollected =>
    /\ Len(results) = Cardinality(Devices)
    /\ \A d \in Devices :
         Cardinality({i \in DOMAIN results : results[i][1] = d}) = 1
    /\ \A i \in DOMAIN results :
         results[i][2] = None \/ Len(results[i][2]) = 1

\* C10 witness: a batch with a failure marker and a temperature.
OneOutcomeWitness ==
  /\ AllCollected
  /\ \E i, j \in DOMAIN results : results[i][2] = None /\ results[j][2] # None

\* the pairs of res that are not of device a
Others(res, a) == SelectSeq(res, LAMBDA item : item[1] # a)

\* C11: a device that failed to read changes nothing for the others: however
\* far the loop over a complete batch gets, it leaves every other device's
\* counter and the emergency flag as the same loop over the batch without
\* the failed device's pair does; and in a cycle evaluated to its end a
\* device that read a temperature next to a failed one has its counter
\* stepped from its own reading.
FaultIsolation ==
  /\ (pc = "poll" /\ AllCollected) =>
       \A a \in Devices : \A k \in 0..Len(results) :
         OutcomeOf(results, a) = "failure" =>
           LET st0 == [counts |-> over_temp_counts, emergency |-> FALSE]
               with == ProcessPrefix(st0, results, k, config.hysteresis_threshold)
               without == ProcessPrefix(st0, Others(results, a),
                                        Len(Others(SubSeq(results, 1, k), a)),
                                        config.hysteresis_threshold)
           IN  /\ with.emergency = without.emergency
               /\ \A b \in Devices \ {a} : with.counts[b] = without.counts[b]
  /\ Returned =>
       \A a, b \in Devices :
         (a # b /\ Last(hist[a]) = "failure") =>
           /\ Last(hist[b]) = "over" => over_temp_counts[b] = seen.counts[b] + 1
           /\ Last(hist[b]) = "within" => over_temp_counts[b] = 0
           /\ Last(hist[b]) # "missing"

\* C11 witness: one device has failed in every cycle while the other read
\* hot twice and has a counter of 2.
FaultIsolationWitness ==
  /\ Returned
  /\ \E a, b \in Devices :
       /\ hist[a] = <<"failure", "failure">>
       /\ hist[b] = <<"over", "over">>
       /\ over_temp_counts[b] = 2

\* C12: while the futures of a cycle are being taken the counters are those
\* the cycle began with and no verdict exists, and every evaluated batch
\* holds an outcome of every device.
FanInBarrier ==
  /\ pc = "poll" => (over_temp_counts = seen.counts /\ verdict = "pending")
  /\ Evaluated =>
       \A d \in Devices : Len(hist[d]) = cycle /\ Last(hist[d]) # "missing"

\* C12 witness: one future is taken, the other worker is at its last
\* attempt, and a counter of the earlier cycles stands untouched.
FanInWitness ==
  /\ pc = "poll"
  /\ \E a, b \in Devices :
       /\ workers[a].state = "collected"
       /\ workers[b].state = "running"
       /\ workers[b].attempt = retry_count - 1
       /\ over_temp_counts[a] >= 1

\* an attempt that gave no reading and did not raise
Failed(o) ==
  \/ o.kind \in {"error", "missing"}
  \/ o.kind = "text" /\ o.text \in {<<"E", "R", "R">>, <<>>}

\* a response without a number
NoNumber(o) == o.kind = "text" /\ o.text \in {<<"E", "R", "R">>, <<>>}

\* the readings of the responses that carry a number
Reading(text) ==
  CASE text = <<"1", "9", "0">> -> [m |-> 190, e |-> 0]
    [] text = <<"T", "=", "1", "7", "0", ".", "5", "C">> -> [m |-> 1705, e |-> 1]
    [] text = <<"1", "8", "0", ".", "0">> -> [m |-> 180, e |-> 0]

\* a response with a number
HasNumber(o) ==
  /\ o.kind = "text"
  /\ o.text \in {<<"1", "9", "0">>, <<"T", "=", "1", "7", "0", ".", "5", "C">>,
                 <<"1", "8", "0", ".", "0">>}

\* C13: a call makes one attempt per outcome met and never more than
\* retry_count; it has slept once after every attempt but the last; and when
\* every attempt failed it ends after exactly retry_count attempts with the
\* failure marker.
BoundedRetries ==
  /\ call.w.attempt = Len(call.trace)
  /\ call.w.attempt <= retry_count
  /\ call.w.state = "running" =>
       (call.w.attempt < retry_count /\ call.w.sleeps = call.w.attempt)
  /\ call.w.state # "running" => call.w.sleeps = call.w.attempt - 1
  /\ (call.w.state = "done" /\ call.w.temp = None) => call.w.attempt = retry_count
  /\ (Len(call.trace) = retry_count /\ \A i \in DOMAIN call.trace : Failed(call.trace[i]))
       => (call.w.state = "done" /\ call.w.temp = None)

\* C13 witness: three failed attempts, two sleeps, the failure marker.
BoundedRetriesWitness ==
  /\ call.w.state = "done"
  /\ call.w.temp = None
  /\ call.w.attempt = retry_count
  /\ call.w.sleeps = retry_count - 1
  /\ \E i \in DOMAIN call.trace : call.trace[i].kind = "error"

\* the port did not exist at any attempt made so far
AllMissing ==
  call.trace # <<>> /\ \A i \in DOMAIN call.trace : call.trace[i].kind = "missing"

NeverRaises == call.w.state # "raised"

\* C15 (amended): a call ends by raising exactly when an attempt met an
\* exception that the except clause does not name; otherwise it goes on or
\* returns a reading or, after retry_count attempts, the failure marker.
RaisesOnlyUncaught ==
  /\ call.w.state = "raised" <=>
       (call.trace # <<>> /\ Last(call.trace).kind = "unexpected")
  /\ call.w.state = "done" =>
       \/ call.w.temp # None /\ HasNumber(Last(call.trace))
       \/ call.w.temp = None /\ call.w.attempt = retry_count

\* C15 witness: transport errors at every attempt end in the failure
\* marker.
RaisesWitness ==
  /\ call.w.state = "done"
  /\ call.w.temp = None
  /\ \A i \in DOMAIN call.trace : call.trace[i].kind = "error"

\* C16: a response without a number leaves the call as a transport error
\* would; after such responses a response with a number gives a reading,
\* and retry_count of them give the failure marker.
ParseFailureRetried ==
  /\ call.w.state = "running" =>
       \A r \in {<<"E", "R", "R">>, <<>>} :
         AfterAttempt(call.w, [kind |-> "text", text |-> r])
           = AfterAttempt(call.w, [kind |-> "error", text |-> <<>>])
  /\ (call.trace # <<>> /\ \A i \in DOMAIN call.trace : NoNumber(call.trace[i])) =>
       IF Len(call.trace) < retry_count
       THEN call.w.state = "running" /\ call.w.sleeps = Len(call.trace)
       ELSE call.w.state = "done" /\ call.w.temp = None
  /\ (call.trace # <<>> /\ HasNumber(Last(call.trace))
        /\ \A i \in 1..(Len(call.trace) - 1) : NoNumber(call.trace[i])) =>
       /\ call.w.state = "done"
       /\ call.w.temp = Some(Reading(Last(call.trace).text))
       /\ call.w.attempt = Len(call.trace)

\* C16 witness: two responses without a number, then a reading.
ParseFailureWitness ==
  /\ Len(call.trace) = retry_count
  /\ NoNumber(call.trace[1])
  /\ NoNumber(call.trace[2])
  /\ call.w.state = "done"
  /\ call.w.temp # None

\* C17: a call whose first response carries a number returns that number
\* after one attempt and no sleep.
HealthyOneAttempt ==
  (call.trace # <<>> /\ HasNumber(call.trace[1])) =>
    /\ Len(call.trace) = 1
    /\ call.w.state = "done"
    /\ call.w.attempt = 1
    /\ call.w.sleeps = 0
    /\ call.w.temp = Some(Reading(call.trace[1].text))

\* C17 witness: "T=170.5C" gives 170.5 at the first attempt.
HealthyWitness ==
  /\ Len(call.trace) = 1
  /\ call.w.temp = Some([m |-> 1705, e |-> 1])
  /\ call.w.attempt = 1

\* C18: the loop is never left: after an exception of the evaluation or of
\* the power-off command the loop sleeps out the interval and is back at
\* the top of a cycle.
NeverFatal ==
  /\ pc \in {"start", "poll", "checked", "command", "sleeping"}
  /\ (pc \in {"start", "poll"} /\ cycle > 0) =>
       clock >= (cycle - (IF pc = "poll" THEN 1 ELSE 0)) * config.check_interval

\* C18 witness: the second cycle polls although the first one raised in
\* its evaluation before any counter was touched.
NeverFatalWitness ==
  /\ pc = "poll"
  /\ cycle = 2
  /\ \E d \in Devices : hist[d] = <<"over">> /\ over_temp_counts[d] = 0

\* C19: outside the poll no worker exists; a poll begins only when every
\* earlier cycle is evaluated and no power-off attempt of it is under way;
\* the command runs only in an evaluated cycle.
StrictlySequential ==
  /\ pc # "poll" => \A d \in Devices : workers[d].state = "idle"
  /\ pc = "poll" =>
       /\ seen.guard = "none"
       /\ seen.command = "none"
       /\ \A d \in Devices :
            Len(hist[d]) = cycle - 1 /\ workers[d].state \in {"running", "collected"}
  /\ pc \in {"command", "sleeping"} => \A d \in Devices : Len(hist[d]) = cycle

\* C19 witness: the second cycle polls after the first one ran the
\* power-off command.
SequentialWitness ==
  /\ pc = "poll"
  /\ cycle = 2
  /\ Len(invocations) = 1
  /\ \E d \in Devices : workers[d].state = "running"

\* C20: the counters change only in the step that evaluates the batch and
\* the recorded attempt only in the step in which the guard decides to act;
\* no step of a worker changes either.
SingleWriter ==
  [][/\ over_temp_counts' # over_temp_counts => (pc = "poll" /\ pc' = "checked")
     /\ last_shutdown_attempt' # last_shutdown_attempt
          => (pc = "checked" /\ pc' = "command")]_vars

\* C20 witness: workers run while a counter and a recorded attempt of an
\* earlier cycle exist.
SingleWriterWitness ==
  /\ pc = "poll"
  /\ last_shutdown_attempt # None
  /\ \E d \in Devices : over_temp_counts[d] >= 1
  /\ \E d \in Devices : workers[d].state = "running" /\ workers[d].attempt >= 1

\* the orders in which a batch of n pairs can have been completed
Orders(n) == {p \in [1..n -> 1..n] : \A i, j \in 1..n : p[i] = p[j] => i = j}

\* C21: a complete batch leaves the same counters and the same emergency
\* flag in whatever order its pairs were appended, however far the loop over
\* it gets.
OrderIrrelevant ==
  AllCollected =>
    \A p \in Orders(Len(results)) : \A k \in 0..Len(results) :
      LET st0 == [counts |-> over_temp_counts, emergency |-> FALSE]
          other == [i \in 1..Len(results) |-> results[p[i]]]
      IN  ProcessPrefix(st0, results, k, config.hysteresis_threshold)
            = ProcessPrefix(st0, other, k, config.hysteresis_threshold)

\* C22 (as claimed): every counter is between 0 and hysteresis_threshold.
CounterWithinThreshold ==
  \A d \in Devices :
    over_temp_counts[d] >= 0 /\ over_temp_counts[d] <= config.hysteresis_threshold

\* number of "over" outcomes in h
Overs(h) == Cardinality({i \in DOMAIN h : h[i] = "over"})

\* C22 (amended): every counter is at least 0 and at most the number of
\* over-limit readings its device has given, hence at most the number of
\* cycles started; it is 0 until the device first reads over the limit.
CounterRange ==
  \A d \in Devices :
    /\ over_temp_counts[d] >= 0
    /\ over_temp_counts[d] <= Overs(hist[d])
    /\ over_temp_counts[d] <= cycle

\* C22 witness: with a threshold of 1 a device that read hot in three cycles
\* has a counter of 3.
CounterRangeWitness ==
  /\ config.hysteresis_threshold = 1
  /\ \E d \in Devices : over_temp_counts[d] = 3 /\ hist[d] = <<"over", "over", "over">>

\* C28: a cycle whose verdict is true, and so every cycle in which the
\* command is started, has a device that read over the limit in that cycle;
\* a cycle without such a reading starts no command.
EmergencyNeedsHotReading ==
  /\ (Evaluated /\ verdict = "true") => \E d \in Devices : Last(hist[d]) = "over"
  /\ (Evaluated /\ seen.guard = "invoked") =>
       (verdict = "true" /\ \E d \in Devices : Last(hist[d]) = "over")
  /\ (Evaluated /\ \A d \in Devices : Last(hist[d]) # "over") =>
       (verdict # "true" /\ seen.guard = "none" /\ Len(invocations) = seen.invoked)

\* C28 witness: a device whose counter stands at the threshold fails to
\* read, the other reads within the limit, and no command is started.
HotReadingWitness ==
  /\ pc = "sleeping"
  /\ verdict = "false"
  /\ seen.guard = "none"
  /\ \E a, b \in Devices :
       /\ hist[a] = <<"over", "over", "failure">>
       /\ over_temp_counts[a] >= config.hysteresis_threshold
       /\ Last(hist[b]) = "within"

\* C29: once a device has read over the limit in every cycle, for at least
\* hysteresis_threshold cycles, the command has been started; and whenever
\* such a cycle's guard is done a cooldown or more after the last start, the
\* command is started in that cycle.
SustainedOverheatPowersOff ==
  (GuardDone /\ \E d \in Devices :
      /\ Len(hist[d]) >= config.hysteresis_threshold
      /\ \A i \in DOMAIN hist[d] : hist[d][i] = "over")
    => /\ Len(invocations) >= 1
       /\ LET at == IF seen.guard = "none" THEN clock ELSE seen.at
          IN  (seen.last = None \/ at - seen.last[1] >= Cooldown)
                => seen.guard = "invoked"

\* C30: a refusal leaves the recorded attempt as it was, and the recorded
\* attempt is always the time of the last start of the command.
RefusalKeepsStamp ==
  /\ (Evaluated /\ seen.guard = "refused") =>
       (last_shutdown_attempt = seen.last /\ Len(invocations) = seen.invoked)
  /\ last_shutdown_attempt =
       (IF invocations = <<>> THEN None ELSE Some(Last(invocations)))

\* C30 witness: the emergency of the second cycle was refused and the
\* recorded attempt is still that of the first cycle.
RefusalWitness ==
  /\ pc = "sleeping"
  /\ cycle = 2
  /\ seen.guard = "refused"
  /\ Len(invocations) = 1
  /\ last_shutdown_attempt = Some(invocations[1])
  /\ clock > invocations[1]

\* C25: the sleep never sets the clock back; after a cycle that took no
\* longer than check_interval the next cycle starts check_interval after
\* the top of this one, and after a longer cycle it starts at once.
IntervalCompensation ==
  [][pc = "sleeping" =>
       LET elapsed == clock - start_time
       IN  /\ clock' >= clock
           /\ elapsed <= config.check_interval
                => clock' = start_time + config.check_interval
           /\ elapsed > config.check_interval => clock' = clock]_vars

\* C25 witness: a cycle that took longer than the interval was followed by
\* no sleep at all.
IntervalOverrunWitness ==
  /\ pc = "start"
  /\ cycle = 1
  /\ clock - start_time > config.check_interval

\* the first substring "optional sign, digits, optional fraction" of each
\* line that has one, read as a signed decimal
SignedDecimal(text) ==
  CASE text = <<"1", "9", "0">> -> [m |-> 190, e |-> 0]
    [] text = <<"T", "=", "1", "7", "0", ".", "5", "C">> -> [m |-> 1705, e |-> 1]
    [] text = <<"1", "8", "0", ".", "0">> -> [m |-> 180, e |-> 0]
    [] text = <<"-", "5", ".", "0">> -> [m |-> 0 - 5, e |-> 0]
    [] text = <<"+", "7">> -> [m |-> 7, e |-> 0]
    [] text = <<"1", "2", "3", "4">> -> [m |-> 1234, e |-> 0]
    [] text = <<"1", "2", "3", "4", ".", "5">> -> [m |-> 12345, e |-> 1]
    [] text = <<"1", "2", ".", "5", " ", "3", "4">> -> [m |-> 125, e |-> 1]
    [] text = <<"a", "1", "b", "2">> -> [m |-> 1, e |-> 0]
    [] text = <<".", "5">> -> [m |-> 5, e |-> 0]

\* the lines without a digit
Numberless == {<<"E", "R", "R">>, <<>>, <<"-">>}

\* C26: the reading a call returns is the first signed decimal of the line
\* it read last, and a line without a number is a failed attempt.
SignedDecimalParse ==
  /\ (call.trace # <<>> /\ Last(call.trace).text \notin Numberless) =>
       (call.w.state = "done"
          /\ call.w.temp = Some(SignedDecimal(Last(call.trace).text)))
  /\ (call.trace # <<>> /\ Last(call.trace).text \in Numberless) =>
       call.w.temp = None

\* C27: no call changes or removes a line the file already holds, and a
\* call that returns has added exactly one line for every device, with the
\* call's timestamp: the reading of a device that gave one, READ_ERROR for
\* a device that gave none.
AppendOnlyRecord ==
  [][/\ Len(temp_log') >= Len(temp_log)
     /\ SubSeq(temp_log', 1, Len(temp_log)) = temp_log
     /\ (cycle' = cycle + 1 /\ verdict' \in {"true", "false"}) =>
          LET new == SubSeq(temp_log', Len(temp_log) + 1, Len(temp_log'))
          IN  /\ Len(new) = Cardinality(Devices)
              /\ \A d \in Devices : \E i \in DOMAIN new :
                   /\ new[i].device = d
                   /\ new[i].at = clock
                   /\ \E j \in DOMAIN results' :
                        /\ results'[j][1] = d
                        /\ new[i].value = results'[j][2]
                        /\ new[i].kind = (IF results'[j][2] = None
                                          THEN "READ_ERROR" ELSE "temperature")]_vars

\* C27 witness: two calls have returned; the file holds the two lines of the
\* first under one timestamp and the two of the second under a later one,
\* a READ_ERROR line among them.
AppendOnlyWitness ==
  /\ cycle = 2
  /\ verdict \in {"true", "false"}
  /\ Len(temp_log) = 2 * Cardinality(Devices)
  /\ temp_log[1].at = temp_log[2].at
  /\ temp_log[3].at > temp_log[2].at
  /\ temp_log[1].kind = "READ_ERROR"
  /\ temp_log[4].kind = "temperature"

GracefulStop ==
  /\ [][process.signalled => pc' \in {"stopping", "exit0"}]_vars
  /\ process.signalled ~> (pc = "exit0")

\* C24 witness: the signal came during a poll and the process has ended
\* with status 0 after a worker had used up its attempts.
GracefulStopWitness ==
  /\ pc = "exit0"
  /\ process.signalled
  /\ verdict = "pending"
  /\ \E d \in Devices : workers[d].state = "done" /\ workers[d].attempt = retry_count

\* C31: in a cycle whose results file raised, every device that gave a
\* reading still has its counter stepped from it, and an emergency reached
\* by those counters still has the guard consulted in that cycle.
EvaluationIndependentOfFile ==
  (Evaluated /\ verdict = "raised") =>
    /\ \A d \in Devices :
         /\ Last(hist[d]) = "over" => over_temp_counts[d] = seen.counts[d] + 1
         /\ Last(hist[d]) = "within" => over_temp_counts[d] = 0
    /\ (pc = "sleeping" /\ \E d \in Devices :
          /\ Last(hist[d]) = "over"
          /\ seen.counts[d] + 1 >= config.hysteresis_threshold)
         => seen.guard \in {"invoked", "refused"}

\* C32: every cycle terminates: a cycle that has begun reaches the sleep of
\* the loop, whatever the devices answer and however the command ends, and
\* no worker begins more than retry_count attempts on the way.
CycleTerminates ==
  /\ [](\A d \in Devices : workers[d].attempt < retry_count)
  /\ ((pc = "poll") ~> (pc = "sleeping"))

\* a cycle that met a device failing every attempt and a command cut off by
\* its timeout is at the sleep
CycleTerminatesWitness ==
  /\ pc = "sleeping"
  /\ seen.command = "timeout"
  /\ \E d \in Devices : Last(hist[d]) = "failure"

\* C33: a process started with --test never runs the configured power-off
\* command: what an invocation runs is the substitute, also when a
\* configuration file names a command; and the guard decides as without
\* --test, refusing inside the cooldown window and invoking outside it.
TestModeNeverShutsDown ==
  process.test =>
    /\ seen.ran \in {None, Some(TestPowerOffCommand)}
    /\ (seen.guard = "invoked") <=> (seen.ran # None)
    /\ (GuardDone /\ verdict = "true") =>
         seen.guard = IF TooSoon(seen.last, seen.at) THEN "refused" ELSE "invoked"

\* a test-mode process with a command in its configuration file has invoked
\* the substitute, and a cycle later the guard has refused
TestModeWitness ==
  /\ process.test
  /\ process.file = "valid"
  /\ Len(invocations) = 1
  /\ seen.guard = "refused"
  /\ seen.ran = None

HotReading(o) == o.temp # None /\ FloatGt(o.temp[1], TEMPERATURE_THRESHOLD)

\* C35: a pass of eq80_check goes over every device and runs the power-cycle
\* command once if some device gave a number strictly above the threshold,
\* and not at all otherwise.
PowerCycleIffHot ==
  eq80.pc = "sleep" =>
    /\ Len(eq80.outcomes) = Len(DEVICES)
    /\ eq80.runs = IF \E k \in DOMAIN eq80.outcomes : HotReading(eq80.outcomes[k])
                   THEN 1 ELSE 0

====
